---- MODULE Spec2Model ----
(***************************************************************************)
(* Model of syntomid_convert.py: the unified note model (Note,             *)
(* NoteCollection with save/load), the MIDI importer                        *)
(* (SynToMidConverter.from_midi_file), the FL Studio JSON importer          *)
(* (FLStudioConverter.from_json) and the entry point main.                  *)
(*                                                                         *)
(* Representation.  A JSON object / Python dict is a TLA+ function whose    *)
(* domain is its set of keys.  A file's content is the value a parser       *)
(* yields for it: a JSON value, a MIDI file (ticks_per_beat, tracks), or    *)
(* text no parser accepts.  Floats are exact rationals [num, den] in        *)
(* lowest terms (binary rounding is not modelled).                          *)
(***************************************************************************)
EXTENDS Bags, FiniteSets, Integers, Sequences, TLC

VARIABLES fs,    \* the file system: path -> content
          mido,  \* whether `import mido` succeeds in this environment
          call,  \* the operation invoked last, with its arguments
          ret    \* what that operation returned or raised

vars == <<fs, mido, call, ret>>

(***************************************************************************)
(* Bounds of the explored input space.                                      *)
(***************************************************************************)
MaxTracks == 2
MaxEvents == 3
MaxDelta == 1
MaxNotes == 2

(***************************************************************************)
(* Numbers.                                                                 *)
(***************************************************************************)
RECURSIVE GCD(_, _)
GCD(a, b) == IF b = 0 THEN a ELSE GCD(b, a % b)

Rat(n, d) ==
    LET g == GCD(n, d)
    IN  IF n = 0 THEN [num |-> 0, den |-> 1]
        ELSE [num |-> n \div g, den |-> d \div g]

RatLE(a, b) == a.num * b.den <= b.num * a.den
RatLT(a, b) == a.num * b.den < b.num * a.den

(***************************************************************************)
(* Python values.                                                           *)
(***************************************************************************)
None == [kind |-> "None"]
Dict(f) == [kind |-> "dict", val |-> f]
EmptyDict == Dict(<<>>)
Raised(e) == [kind |-> "raised", exc |-> e]
Some(v) == [kind |-> "some", val |-> v]
\* main returning an exit code, with the message it reported last
Exit(c, report) == [kind |-> "exit", code |-> c, report |-> report]

Get(d, k, default) == IF k \in DOMAIN d THEN d[k] ELSE default
Without(d, k) == [x \in (DOMAIN d) \ {k} |-> d[x]]

Path(d, s, x) == [dir |-> d, stem |-> s, suffix |-> x]

Absent == [kind |-> "absent"]
Garbage == [kind |-> "garbage"]
JsonFile(v) == [kind |-> "json", val |-> v]
MidiFile(tpb, trs) == [kind |-> "midi", ticks_per_beat |-> tpb, tracks |-> trs]

\* what is stored at a path; a path the file system does not hold is absent
Content(files, p) == IF p \in DOMAIN files THEN files[p] ELSE Absent
Exists(files, p) == Content(files, p).kind # "absent"

\* open(path, 'r') followed by json.load
ReadJson(files, p) ==
    IF ~Exists(files, p) THEN Raised("FileNotFoundError")
    ELSE IF Content(files, p).kind # "json" THEN Raised("JSONDecodeError")
    ELSE [kind |-> "ok", data |-> Content(files, p).val]

(***************************************************************************)
(* Note and NoteCollection.                                                 *)
(***************************************************************************)
DefaultChannel == 0
DefaultChannelName == ""
DefaultVersion == "1.0"
DefaultSource == "manual"

Note(start, duration, pitch, velocity, channel, channel_name) ==
    [start |-> start, duration |-> duration, pitch |-> pitch,
     velocity |-> velocity, channel |-> channel, channel_name |-> channel_name]

DefaultMetadata ==
    [title |-> "", bpm |-> 120, time_signature |-> "4/4",
     duration_seconds |-> Rat(0, 1)]

\* the dataclass constructor followed by __post_init__; metadata is a
\* Python value (None or Dict(..)), notes always starts empty here
NoteCollection(version, source, metadata) ==
    [kind |-> "collection", version |-> version, source |-> source,
     metadata |-> IF metadata = None THEN Dict(DefaultMetadata) ELSE metadata,
     notes |-> <<>>]

\* mutation: channel_name is dropped from every record
NoteToDictNoName(n) == Without(n, "channel_name")

\* Note.to_dict
NoteToDict(n) ==
    IF n.channel_name = "" THEN Without(n, "channel_name") ELSE n

\* NoteCollection.to_dict
CollectionToDict(c) ==
    [version |-> c.version, source |-> c.source, metadata |-> c.metadata,
     notes |-> [i \in DOMAIN c.notes |-> NoteToDict(c.notes[i])]]

\* NoteCollection.save: the file is replaced by the serialized collection
save(files, c, path) == (path :> JsonFile(CollectionToDict(c))) @@ files

RequiredNoteKeys == {"start", "duration", "pitch", "velocity"}
NoteKeys == RequiredNoteKeys \cup {"channel", "channel_name"}

\* Note(**note_data): keyword construction with the dataclass defaults
NoteFromKeywords(d) ==
    Note(d.start, d.duration, d.pitch, d.velocity,
         Get(d, "channel", DefaultChannel),
         Get(d, "channel_name", DefaultChannelName))
AcceptsKeywords(d) == RequiredNoteKeys \subseteq DOMAIN d /\ DOMAIN d \subseteq NoteKeys

\* mutation: data.get("metadata") with no fallback
LoadMetadataNoFallback(data) == Get(data, "metadata", None)

LoadMetadata(data) == Get(data, "metadata", EmptyDict)

\* NoteCollection.load
load(files, path) ==
    LET r == ReadJson(files, path)
    IN  IF r.kind = "raised" THEN r
        ELSE LET data == r.data
                 collection ==
                     NoteCollection(Get(data, "version", DefaultVersion),
                                    Get(data, "source", DefaultSource),
                                    LoadMetadata(data))
                 stored == Get(data, "notes", <<>>)
             IN  IF \E i \in DOMAIN stored : ~AcceptsKeywords(stored[i])
                 THEN Raised("TypeError")
                 ELSE [collection EXCEPT
                         !.notes = [i \in DOMAIN stored |-> NoteFromKeywords(stored[i])]]

(***************************************************************************)
(* SynToMidConverter.from_midi_file                                         *)
(***************************************************************************)
DefaultTempo == 500000
DefaultDuration == Rat(1, 4)

\* mutation: the tempo in effect is ignored
TimeSecondsDefaultTempo(current_time, tempo, ticks_per_beat) ==
    Rat(current_time * 500000, 1000000 * ticks_per_beat)

TimeSeconds(current_time, tempo, ticks_per_beat) ==
    Rat(current_time * tempo, 1000000 * ticks_per_beat)

VelocityNorm(velocity) == Rat(velocity, 127)

\* mutation: a note-on with velocity 0 counts as a note
EmitsNoteAnyVelocity(msg) == msg.type = "note_on" /\ msg.velocity >= 0

EmitsNote(msg) == msg.type = "note_on" /\ msg.velocity > 0

\* the inner loop over one track, from message i on, with the running
\* clock and tempo; yields the notes appended, in order
RECURSIVE TrackLoop(_, _, _, _, _)
TrackLoop(track, i, current_time, tempo, tpb) ==
    IF i > Len(track) THEN <<>>
    ELSE LET msg == track[i]
             now == current_time + msg.time
         IN  IF msg.type = "set_tempo"
             THEN TrackLoop(track, i + 1, now, msg.tempo, tpb)
             ELSE IF EmitsNote(msg)
             THEN <<Note(TimeSeconds(now, tempo, tpb), DefaultDuration,
                         msg.note, VelocityNorm(msg.velocity), msg.channel,
                         DefaultChannelName)>>
                  \o TrackLoop(track, i + 1, now, tempo, tpb)
             ELSE TrackLoop(track, i + 1, now, tempo, tpb)

TrackStart(track, tpb) == TrackLoop(track, 1, 0, DefaultTempo, tpb)

\* the outer loop over mid.tracks
RECURSIVE AllTracks(_, _, _)
AllTracks(tracks, t, tpb) ==
    IF t > Len(tracks) THEN <<>>
    ELSE TrackStart(tracks[t], tpb) \o AllTracks(tracks, t + 1, tpb)

\* mutation: an element goes before the elements of equal key
RECURSIVE InsertBeforeEqual(_, _)
InsertBeforeEqual(sorted, n) ==
    IF sorted = <<>> THEN <<n>>
    ELSE IF RatLT(sorted[Len(sorted)].start, n.start)
    THEN Append(sorted, n)
    ELSE Append(InsertBeforeEqual(SubSeq(sorted, 1, Len(sorted) - 1), n),
                sorted[Len(sorted)])

\* list.sort(key=lambda n: n.start): a stable sort; an element goes after
\* every element whose key is not greater
RECURSIVE InsertByStart(_, _)
InsertByStart(sorted, n) ==
    IF sorted = <<>> THEN <<n>>
    ELSE IF RatLE(sorted[Len(sorted)].start, n.start)
    THEN Append(sorted, n)
    ELSE Append(InsertByStart(SubSeq(sorted, 1, Len(sorted) - 1), n),
                sorted[Len(sorted)])

RECURSIVE SortFrom(_, _, _)
SortFrom(sorted, notes, i) ==
    IF i > Len(notes) THEN sorted
    ELSE SortFrom(InsertByStart(sorted, notes[i]), notes, i + 1)

SortByStart(notes) == SortFrom(<<>>, notes, 1)

Falsy(metadata) == metadata = None \/ metadata = EmptyDict

from_midi_file(files, available, midi_path, metadata) ==
    IF ~available THEN None
    ELSE IF ~Exists(files, midi_path) THEN Raised("FileNotFoundError")
    ELSE IF Content(files, midi_path).kind # "midi" THEN Raised("OSError")
    ELSE LET mid == Content(files, midi_path)
             collection ==
                 NoteCollection(DefaultVersion, "syntomid",
                     IF Falsy(metadata)
                     THEN Dict([title |-> midi_path.stem, bpm |-> 120])
                     ELSE metadata)
         IN  [collection EXCEPT
                 !.notes = SortByStart(AllTracks(mid.tracks, 1, mid.ticks_per_beat))]

(***************************************************************************)
(* FLStudioConverter.from_json                                              *)
(***************************************************************************)
NoteFromEntry(note_data) ==
    Note(note_data.start, note_data.duration, note_data.pitch,
         note_data.velocity,
         Get(note_data, "channel", DefaultChannel),
         Get(note_data, "channel_name", DefaultChannelName))

\* mutation: the notes are sorted by start as in the MIDI importer
FLNotesSorted(entries) ==
    IF \E i \in DOMAIN entries : ~(RequiredNoteKeys \subseteq DOMAIN entries[i])
    THEN Raised("KeyError")
    ELSE [kind |-> "ok",
          notes |-> SortByStart([i \in DOMAIN entries |-> NoteFromEntry(entries[i])])]

\* the loop over fl_data["notes"]; a missing required key raises KeyError
FLNotes(entries) ==
    IF \E i \in DOMAIN entries : ~(RequiredNoteKeys \subseteq DOMAIN entries[i])
    THEN Raised("KeyError")
    ELSE [kind |-> "ok",
          notes |-> [i \in DOMAIN entries |-> NoteFromEntry(entries[i])]]

from_json(files, json_path) ==
    LET r == ReadJson(files, json_path)
    IN  IF r.kind = "raised" THEN r
        ELSE LET fl_data == r.data
                 collection ==
                     NoteCollection(DefaultVersion, "fl_studio",
                         Dict([title |-> json_path.stem,
                               bpm |-> Get(fl_data, "bpm", 120),
                               time_signature |-> Get(fl_data, "time_signature", "4/4"),
                               duration_seconds |-> Get(fl_data, "duration_seconds", Rat(0, 1))]))
                 loop == FLNotes(Get(fl_data, "notes", <<>>))
             IN  IF loop.kind = "raised" THEN loop
                 ELSE [collection EXCEPT !.notes = loop.notes]

(***************************************************************************)
(* main                                                                     *)
(***************************************************************************)
\* str.lower() on the suffixes that occur
Lower(suffix) ==
    CASE suffix = ".MID" -> ".mid"
      [] suffix = ".JSON" -> ".json"
      [] OTHER -> suffix

\* mutation: an unknown extension falls back to the JSON importer
DetectSourceFallback(source, suffix) ==
    IF source # "auto" THEN source
    ELSE IF Lower(suffix) = ".mid" THEN "syntomid"
    ELSE "fl_studio"

\* the auto-detection block; "undetected" stands for the early return
DetectSource(source, suffix) ==
    IF source # "auto" THEN source
    ELSE IF Lower(suffix) = ".mid" THEN "syntomid"
    ELSE IF Lower(suffix) = ".json" THEN "fl_studio"
    ELSE "undetected"

\* args.title or input_path.stem
TitleOr(title, stem) ==
    IF title = None THEN stem
    ELSE IF title.val = "" THEN stem
    ELSE title.val

\* Path(args.output or f"{input_path.stem}.json"), relative to the
\* current directory
OutputPath(args) ==
    IF args.output = None THEN Path(".", args.input.stem, ".json")
    ELSE args.output.val

Convert(files, available, source, args) ==
    IF source = "syntomid"
    THEN from_midi_file(files, available, args.input,
             Dict([title |-> TitleOr(args.title, args.input.stem),
                   bpm |-> args.bpm]))
    ELSE from_json(files, args.input)

\* mutation: the output file is opened for writing before the importer's
\* result is looked at
FinishOpensFirst(files, collection, output_path) ==
    IF collection = None
    THEN [ret |-> Exit(1, "mido library required"),
          files |-> (output_path :> JsonFile(<<>>)) @@ files]
    ELSE [ret |-> Exit(0, "Conversion complete"),
          files |-> save(files, collection, output_path)]

\* from `if collection is None` to the end of main
Finish(files, collection, output_path) ==
    IF collection = None
    THEN [ret |-> Exit(1, "mido library required"), files |-> files]
    ELSE [ret |-> Exit(0, "Conversion complete"),
          files |-> save(files, collection, output_path)]

\* main: what it returns (or the exception that leaves it) and the file
\* system it leaves behind
main(files, available, args) ==
    IF ~Exists(files, args.input)
    THEN [ret |-> Exit(1, "File not found"), files |-> files]
    ELSE LET source == DetectSource(args.source, args.input.suffix)
         IN  IF source = "undetected"
             THEN [ret |-> Exit(1, "Cannot auto-detect format"), files |-> files]
             ELSE LET collection == Convert(files, available, source, args)
                  IN  IF collection.kind = "raised"
                      THEN [ret |-> collection, files |-> files]
                      ELSE Finish(files, collection, OutputPath(args))

(***************************************************************************)
(* MIDI inputs explored.                                                    *)
(***************************************************************************)
\* delta times, in ticks
LongDelta == 480 * MaxDelta
Deltas == {0, LongDelta}
TicksPerBeats == {480}

\* the messages explored: tempo changes at once and after a delay, a
\* repeated default tempo, an audible note at once and after a delay, a
\* second pitch at full velocity on another channel, a note-on with
\* velocity 0 and a delayed note-off
Msgs ==
    [type : {"set_tempo"}, time : Deltas, tempo : {250000}]
    \cup {[type |-> "set_tempo", time |-> 0, tempo |-> 500000]}
    \cup [type : {"note_on"}, time : Deltas, velocity : {100}, note : {60},
          channel : {0}]
    \cup {[type |-> "note_on", time |-> 0, velocity |-> 127, note |-> 64,
           channel |-> 1],
          [type |-> "note_on", time |-> 0, velocity |-> 0, note |-> 60,
           channel |-> 0],
          [type |-> "note_off", time |-> LongDelta, velocity |-> 0, note |-> 60,
           channel |-> 0]}

SeqsUpTo(S, n) == UNION {[1..k -> S] : k \in 0..n}

\* the tracks of a file, given its messages in file order and, for each
\* message, the number of the track holding it
TracksOf(k, events, trackOf) ==
    [t \in 1..k |->
        LET idx == {i \in 1..Len(events) : trackOf[i] = t}
            RECURSIVE Pick(_)
            Pick(i) == IF i > Len(events) THEN <<>>
                       ELSE IF i \in idx THEN <<events[i]>> \o Pick(i + 1)
                       ELSE Pick(i + 1)
        IN  Pick(1)]

Monotone(trackOf) ==
    \A i, j \in DOMAIN trackOf : i <= j => trackOf[i] <= trackOf[j]

SongMid == Path(".", "song", ".mid")

NoCall == [op |-> "none"]
NoRet == [kind |-> "none"]

InitMidi ==
    /\ \E k \in 0..MaxTracks, events \in SeqsUpTo(Msgs, MaxEvents),
          tpb \in TicksPerBeats :
          \E trackOf \in [1..Len(events) -> 1..k] :
              /\ Monotone(trackOf)
              /\ fs = (SongMid :> MidiFile(tpb, TracksOf(k, events, trackOf)))
    /\ mido = TRUE
    /\ call = NoCall
    /\ ret = NoRet

FromMidiFile(path, metadata) ==
    /\ call' = [op |-> "from_midi_file", path |-> path, metadata |-> metadata]
    /\ ret' = from_midi_file(fs, mido, path, metadata)
    /\ UNCHANGED <<fs, mido>>

NextMidi == FromMidiFile(SongMid, None)

SpecMidi == InitMidi /\ [][NextMidi]_vars

(***************************************************************************)
(* FL Studio inputs explored.                                               *)
(***************************************************************************)
Starts == {Rat(0, 1), Rat(1, 2)}

BaseEntries ==
    [start : Starts, duration : {Rat(1, 1)}, pitch : {64}, velocity : {Rat(4, 5)}]
ChannelOptions == {<<>>, ("channel" :> 1)}
ChannelNameOptions == {<<>>, ("channel_name" :> ""), ("channel_name" :> "Lead")}

\* entries with the four required keys, and entries lacking one of them
FullEntries ==
    {e @@ c @@ n : e \in BaseEntries, c \in ChannelOptions, n \in ChannelNameOptions}
BadEntries ==
    {Without(e, k) : e \in {b \in BaseEntries : b.start = Rat(0, 1)},
                     k \in RequiredNoteKeys}
FLEntries == FullEntries \cup BadEntries

TopLevelOptions ==
    {<<>>, [bpm |-> 140],
     [bpm |-> 140, time_signature |-> "3/4", duration_seconds |-> Rat(2, 1)]}

FLDocs ==
    {top @@ ns : top \in TopLevelOptions,
                 ns \in {<<>>} \cup {("notes" :> entries) :
                                        entries \in SeqsUpTo(FLEntries, MaxNotes)}}

SongJson == Path(".", "song", ".json")

InitFL ==
    /\ \E content \in {Absent, Garbage} \cup {JsonFile(d) : d \in FLDocs} :
          fs = (SongJson :> content)
    /\ mido = TRUE
    /\ call = NoCall
    /\ ret = NoRet

FromJson(path) ==
    /\ call' = [op |-> "from_json", path |-> path]
    /\ ret' = from_json(fs, path)
    /\ UNCHANGED <<fs, mido>>

NextFL == FromJson(SongJson)

SpecFL == InitFL /\ [][NextFL]_vars

(***************************************************************************)
(* Properties of the FL Studio importer.                                    *)
(***************************************************************************)
FLDone == call.op = "from_json" /\ ret.kind = "collection"
FLIn == Get(Content(fs, call.path).val, "notes", <<>>)

\* C1: from_json returns as many notes as the input lists, the i-th built
\* from the i-th entry: start, duration, pitch and velocity copied, channel
\* 0 and channel_name "" when absent; nothing is dropped, duplicated or
\* reordered, whatever the order of the starts.
C1_NotesPreserved ==
    FLDone =>
        /\ Len(ret.notes) = Len(FLIn)
        /\ \A i \in DOMAIN FLIn :
              /\ ret.notes[i].start = FLIn[i].start
              /\ ret.notes[i].duration = FLIn[i].duration
              /\ ret.notes[i].pitch = FLIn[i].pitch
              /\ ret.notes[i].velocity = FLIn[i].velocity
              /\ ret.notes[i].channel =
                    IF "channel" \in DOMAIN FLIn[i] THEN FLIn[i].channel ELSE 0
              /\ ret.notes[i].channel_name =
                    IF "channel_name" \in DOMAIN FLIn[i] THEN FLIn[i].channel_name ELSE ""

\* two entries with descending starts, the first without channel and
\* channel_name, have been converted
C1_Witness ==
    /\ FLDone
    /\ Len(FLIn) = 2
    /\ RatLT(FLIn[2].start, FLIn[1].start)
    /\ DOMAIN FLIn[1] = RequiredNoteKeys
    /\ Len(ret.notes) = 2

(***************************************************************************)
(* save and load: collections and stored files explored.                    *)
(***************************************************************************)
StoreNotes ==
    {Note(Rat(1, 2), Rat(1, 1), 64, Rat(4, 5), ch, nm) :
        ch \in {0, 1}, nm \in {"", "Lead"}}

Collections ==
    {[NoteCollection(c[1], c[2], c[3]) EXCEPT !.notes = ns] :
        c \in {<<"1.0", "manual", None>>,
               <<"2.0", "syntomid", Dict([title |-> "t"])>>},
        ns \in SeqsUpTo(StoreNotes, MaxNotes)}

StoredMetadata ==
    {None, EmptyDict, Dict([title |-> "t"]), Dict(DefaultMetadata)}

StoredNoteLists ==
    {<<>>,
     <<[start |-> Rat(0, 1), duration |-> Rat(1, 1), pitch |-> 64,
        velocity |-> Rat(4, 5), channel |-> 1]>>,
     <<[start |-> Rat(0, 1), duration |-> Rat(1, 1), velocity |-> Rat(4, 5)]>>}

StoredDocs ==
    {v @@ src @@ m @@ n :
        v \in {<<>>, [version |-> "2.0"]},
        src \in {<<>>, [source |-> "fl_studio"]},
        m \in {<<>>} \cup {("metadata" :> x) : x \in StoredMetadata},
        n \in {<<>>} \cup {("notes" :> l) : l \in StoredNoteLists}}

StorePath == Path(".", "notes", ".json")

InitStore ==
    /\ \E content \in {Absent, Garbage} \cup {JsonFile(d) : d \in StoredDocs} :
          fs = (StorePath :> content)
    /\ mido = TRUE
    /\ call = NoCall
    /\ ret = NoRet

Save(c, path) ==
    /\ call' = [op |-> "save", path |-> path, collection |-> c]
    /\ fs' = save(fs, c, path)
    /\ ret' = None
    /\ UNCHANGED mido

Load(path) ==
    /\ call' = [op |-> "load", path |-> path]
    /\ ret' = load(fs, path)
    /\ UNCHANGED <<fs, mido>>

NextStore ==
    \/ \E c \in Collections : Save(c, StorePath)
    \/ Load(StorePath)

SpecStore == InitStore /\ [][NextStore]_vars

(***************************************************************************)
(* Properties of save and load.                                             *)
(***************************************************************************)
LoadDone == call.op = "load" /\ ret.kind = "collection"
Stored == Content(fs, call.path).val

\* C5: save(path) followed by load(path) yields the notes of the saved
\* collection, note by note and in order (a non-empty channel_name is
\* reproduced, an empty one comes back as ""), and its version and source.
C5_RoundTrip ==
    [][(call.op = "save" /\ call'.op = "load" /\ call'.path = call.path) =>
          /\ ret'.kind = "collection"
          /\ ret'.notes = call.collection.notes
          /\ ret'.version = call.collection.version
          /\ ret'.source = call.collection.source]_vars

\* a file holding one record without channel_name and one with
\* channel_name "Lead" has been loaded
C5_Witness ==
    /\ LoadDone
    /\ Len(ret.notes) = 2
    /\ "channel_name" \notin DOMAIN Stored.notes[1]
    /\ ret.notes[1].channel_name = ""
    /\ "channel_name" \in DOMAIN Stored.notes[2]
    /\ ret.notes[2].channel_name = "Lead"

\* C9 as claimed: load never fills in metadata defaults, whatever the file
\* stores under "metadata" (nothing, an empty mapping, null, ...); version
\* and source default to "1.0" and "manual".
C9_AsClaimed ==
    LoadDone =>
        /\ ret.metadata = Get(Stored, "metadata", EmptyDict)
        /\ ret.version = Get(Stored, "version", "1.0")
        /\ ret.source = Get(Stored, "source", "manual")

\* C9 as amended: a stored mapping is loaded exactly as stored (missing
\* keys stay missing), an absent metadata loads as the empty mapping, and
\* only a stored null is replaced by the four construction defaults;
\* version and source default to "1.0" and "manual".
C9_LoadMetadata ==
    LoadDone =>
        /\ ("metadata" \in DOMAIN Stored /\ Stored.metadata # None)
              => ret.metadata = Stored.metadata
        /\ "metadata" \notin DOMAIN Stored => ret.metadata = EmptyDict
        /\ ("metadata" \in DOMAIN Stored /\ Stored.metadata = None)
              => ret.metadata = Dict([title |-> "", bpm |-> 120,
                                      time_signature |-> "4/4",
                                      duration_seconds |-> [num |-> 0, den |-> 1]])
        /\ ret.version = (IF "version" \in DOMAIN Stored THEN Stored.version ELSE "1.0")
        /\ ret.source = (IF "source" \in DOMAIN Stored THEN Stored.source ELSE "manual")

\* a file without version, source and metadata has been loaded
C9_Witness ==
    /\ LoadDone
    /\ DOMAIN Stored \cap {"version", "source", "metadata"} = {}
    /\ ret.metadata = EmptyDict

(***************************************************************************)
(* Runs of main: file systems and command lines explored.                   *)
(***************************************************************************)
SubSongJson == Path("in", "song", ".json")
InputXyz == Path(".", "input", ".xyz")
TakeMid == Path(".", "take", ".MID")
OutJson == Path(".", "out", ".json")

GoodEntry == [start |-> Rat(1, 2), duration |-> Rat(1, 1), pitch |-> 64,
              velocity |-> Rat(4, 5)]
NamedEntry == [start |-> Rat(0, 1), duration |-> Rat(1, 1), pitch |-> 60,
               velocity |-> Rat(4, 5), channel |-> 1, channel_name |-> "Lead"]
FLGood == JsonFile([bpm |-> 140, notes |-> <<GoodEntry, NamedEntry>>])
FLBadNote == JsonFile([notes |-> <<GoodEntry, Without(NamedEntry, "pitch")>>])
OldOutput ==
    JsonFile(CollectionToDict(NoteCollection(DefaultVersion, DefaultSource, None)))

\* the scenario of the specification: one track, tempo 500000 at tick 0, a
\* note-on at tick 480, 480 ticks per beat
ScenarioFile ==
    MidiFile(480, <<
        <<[type |-> "set_tempo", time |-> 0, tempo |-> 500000],
          [type |-> "note_on", time |-> 480, velocity |-> 100, note |-> 60,
           channel |-> 0]>> >>)

InputPaths == {SongMid, SongJson, SubSongJson, InputXyz, TakeMid}

InitMain ==
    /\ \E mid \in {Absent, Garbage, ScenarioFile},
          json \in {Absent, Garbage, FLGood, FLBadNote},
          sub \in {Absent, FLGood},
          xyz \in {Absent, FLGood, ScenarioFile},
          take \in {Absent, ScenarioFile},
          out \in {Absent, OldOutput} :
          fs = (SongMid :> mid) @@ (SongJson :> json) @@ (SubSongJson :> sub)
               @@ (InputXyz :> xyz) @@ (TakeMid :> take) @@ (OutJson :> out)
    /\ mido \in BOOLEAN
    /\ call = NoCall
    /\ ret = NoRet

ArgLines ==
    [input : InputPaths, output : {None, Some(OutJson)},
     source : {"syntomid", "fl_studio", "auto"},
     title : {None, Some("T")}, bpm : {120, 90}]

\* one run of the program
Main(args) ==
    /\ call = NoCall
    /\ call' = [op |-> "main", args |-> args]
    /\ ret' = main(fs, mido, args).ret
    /\ fs' = main(fs, mido, args).files
    /\ UNCHANGED mido

NextMain == \E args \in ArgLines : Main(args)

SpecMain == InitMain /\ [][NextMain]_vars

(***************************************************************************)
(* Properties of the MIDI importer.                                         *)
(***************************************************************************)
MidiDone == call.op = "from_midi_file" /\ ret.kind = "collection"
MidiIn == fs[call.path]

Range(s) == {s[i] : i \in DOMAIN s}
BagOfSeq(s) == [x \in Range(s) |-> Cardinality({i \in DOMAIN s : s[i] = x})]
Max(S) == CHOOSE x \in S : \A y \in S : y <= x

\* the note-on events with velocity > 0, as <<track number, position>>
Audible(mid) ==
    {e \in UNION {{<<t, i>> : i \in 1..Len(mid.tracks[t])} : t \in 1..Len(mid.tracks)} :
        /\ mid.tracks[e[1]][e[2]].type = "note_on"
        /\ mid.tracks[e[1]][e[2]].velocity > 0}
MsgAt(mid, e) == mid.tracks[e[1]][e[2]]

RECURSIVE SumDeltas(_, _)
SumDeltas(track, i) == IF i = 0 THEN 0 ELSE track[i].time + SumDeltas(track, i - 1)

\* the value of the latest set_tempo before position i of the track
TempoInEffect(track, i) ==
    LET earlier == {j \in 1..(i - 1) : track[j].type = "set_tempo"}
    IN  IF earlier = {} THEN 500000 ELSE track[Max(earlier)].tempo

\* ticks * tempo / 1000000 / ticks_per_beat, as a fraction in lowest terms
StartOf(mid, e) ==
    Rat(SumDeltas(mid.tracks[e[1]], e[2]) * TempoInEffect(mid.tracks[e[1]], e[2]),
        1000000 * mid.ticks_per_beat)
SameRat(a, b) == a.num * b.den = b.num * a.den

\* position of an event in emission order: track order, then event order
Rank(mid, e) ==
    Cardinality({d \in Audible(mid) : d[1] < e[1] \/ (d[1] = e[1] /\ d[2] <= e[2])})
EventOfRank(mid, r) == CHOOSE e \in Audible(mid) : Rank(mid, e) = r

\* C2: the notes returned by from_midi_file are sorted non-decreasing by
\* start, and the notes of one start value appear in emission order (track
\* order, then event order within the track).
C2_SortedStable ==
    MidiDone =>
        /\ \A i \in 1..(Len(ret.notes) - 1) :
               RatLE(ret.notes[i].start, ret.notes[i + 1].start)
        /\ \A n \in Range(ret.notes) :
               LET tied == SelectSeq(ret.notes, LAMBDA x : SameRat(x.start, n.start))
                   evs == {e \in Audible(MidiIn) : SameRat(StartOf(MidiIn, e), n.start)}
                   byRank == {<<Cardinality({d \in evs : Rank(MidiIn, d) <= Rank(MidiIn, e)}), e>>
                              : e \in evs}
               IN  /\ Len(tied) = Cardinality(evs)
                   /\ \A p \in byRank :
                          /\ tied[p[1]].pitch = MsgAt(MidiIn, p[2]).note
                          /\ tied[p[1]].channel = MsgAt(MidiIn, p[2]).channel

\* a tempo change makes a later note of a track start earlier than a note
\* before it, and two different notes tie
C2_Witness ==
    /\ MidiDone
    /\ \E e, d \in Audible(MidiIn) :
          /\ e[1] = d[1] /\ e[2] < d[2]
          /\ RatLT(StartOf(MidiIn, d), StartOf(MidiIn, e))

\* notes of equal start and different pitch, emitted in descending pitch
C2_WitnessTie ==
    /\ MidiDone
    /\ \E e, d \in Audible(MidiIn) :
          /\ Rank(MidiIn, e) < Rank(MidiIn, d)
          /\ SameRat(StartOf(MidiIn, d), StartOf(MidiIn, e))
          /\ MsgAt(MidiIn, e).note > MsgAt(MidiIn, d).note

\* C3: from_midi_file emits exactly one note per note-on with velocity > 0
\* and none for any other event; each note has duration 0.25, the event's
\* note number and channel, and velocity = event velocity / 127, which lies
\* in (0, 1].
C3_OneNotePerNoteOn ==
    MidiDone =>
        /\ Len(ret.notes) = Cardinality(Audible(MidiIn))
        /\ \A i \in DOMAIN ret.notes :
              (ret.notes[i].velocity.num * 127) % ret.notes[i].velocity.den = 0
        /\ BagOfSeq([i \in DOMAIN ret.notes |->
                        <<ret.notes[i].pitch, ret.notes[i].channel,
                          (ret.notes[i].velocity.num * 127) \div ret.notes[i].velocity.den>>])
             = BagOfSeq([r \in 1..Cardinality(Audible(MidiIn)) |->
                        LET m == MsgAt(MidiIn, EventOfRank(MidiIn, r))
                        IN  <<m.note, m.channel, m.velocity>>])
        /\ \A i \in DOMAIN ret.notes :
              /\ ret.notes[i].duration.num * 4 = ret.notes[i].duration.den
              /\ ret.notes[i].velocity.num > 0
              /\ ret.notes[i].velocity.num <= ret.notes[i].velocity.den

\* a file with a note-on of velocity 0, a note-off, a set_tempo and an
\* audible note-on has been converted
C3_Witness ==
    /\ MidiDone
    /\ Len(ret.notes) >= 1
    /\ \E t \in 1..Len(MidiIn.tracks) : \E i, j \in 1..Len(MidiIn.tracks[t]) :
          /\ MidiIn.tracks[t][i].type = "note_on" /\ MidiIn.tracks[t][i].velocity = 0
          /\ MidiIn.tracks[t][j].type \in {"note_off", "set_tempo"}

\* C4: each track is timed on its own: the start of a note is (sum of the
\* delta times of its track up to and including its note-on) * (value of the
\* latest earlier set_tempo of the same track, else 500000) / 1000000 /
\* ticks_per_beat; the scenario file gives start 0.5.
C4_PerTrackTiming ==
    MidiDone =>
        /\ Len(ret.notes) = Cardinality(Audible(MidiIn))
        /\ \A e \in Audible(MidiIn) :
              Cardinality({i \in DOMAIN ret.notes :
                              /\ ret.notes[i].pitch = MsgAt(MidiIn, e).note
                              /\ SameRat(ret.notes[i].start, StartOf(MidiIn, e))})
              = Cardinality({d \in Audible(MidiIn) :
                              /\ MsgAt(MidiIn, d).note = MsgAt(MidiIn, e).note
                              /\ SameRat(StartOf(MidiIn, d), StartOf(MidiIn, e))})
        /\ MidiIn = ScenarioFile =>
              /\ Len(ret.notes) = 1
              /\ ret.notes[1].start.num * 2 = ret.notes[1].start.den

\* two tracks: one changes the tempo to 250000 and then plays a note at a
\* later tick, the other plays a note at a later tick under the default tempo
C4_Witness ==
    /\ MidiDone
    /\ Len(MidiIn.tracks) = 2
    /\ \E a, b \in 1..2 :
          /\ a # b
          /\ \E i, j \in 1..Len(MidiIn.tracks[a]) :
                /\ i < j
                /\ MidiIn.tracks[a][i].type = "set_tempo"
                /\ MidiIn.tracks[a][i].tempo = 250000
                /\ <<a, j>> \in Audible(MidiIn)
                /\ SumDeltas(MidiIn.tracks[a], j) > 0
          /\ \E i \in 1..Len(MidiIn.tracks[b]) :
                /\ <<b, i>> \in Audible(MidiIn)
                /\ SumDeltas(MidiIn.tracks[b], i) > 0

\* the scenario file has been converted
C4_Scenario == MidiDone /\ MidiIn = ScenarioFile

(***************************************************************************)
(* Properties of main.                                                      *)
(***************************************************************************)
MainDone == call.op = "main"
MainSucceeded == MainDone /\ ret.kind = "exit" /\ ret.code = 0

\* the importer a command line selects, from the command line alone
Selected(args) ==
    IF args.source # "auto" THEN args.source
    ELSE IF args.input.suffix \in {".mid", ".MID"} THEN "syntomid"
    ELSE IF args.input.suffix \in {".json", ".JSON"} THEN "fl_studio"
    ELSE "none"

\* where a command line sends the output
Target(args) ==
    IF args.output = None
    THEN [dir |-> ".", stem |-> args.input.stem, suffix |-> ".json"]
    ELSE args.output.val

WellFormedEntries(content) ==
    /\ content.kind = "json"
    /\ "notes" \in DOMAIN content.val =>
          \A i \in DOMAIN content.val.notes :
              {"start", "duration", "pitch", "velocity"} \subseteq DOMAIN content.val.notes[i]

\* C6: the output file of every successful conversion has version, source
\* in {"manual", "syntomid", "fl_studio"}, a metadata mapping with all of
\* title, bpm, time_signature and duration_seconds, and note records with
\* start, duration, pitch, velocity, channel, and channel_name only when it
\* is non-empty.
C6_OutputSchema ==
    MainSucceeded =>
        LET out == Content(fs, Target(call.args))
        IN  /\ out.kind = "json"
            /\ {"version", "source", "metadata", "notes"} \subseteq DOMAIN out.val
            /\ out.val.source \in {"manual", "syntomid", "fl_studio"}
            /\ out.val.metadata.kind = "dict"
            /\ {"title", "bpm", "time_signature", "duration_seconds"}
                  \subseteq DOMAIN out.val.metadata.val
            /\ \A i \in DOMAIN out.val.notes :
                  LET rec == out.val.notes[i]
                  IN  /\ {"start", "duration", "pitch", "velocity", "channel"}
                            \subseteq DOMAIN rec
                      /\ "channel_name" \in DOMAIN rec => rec.channel_name # ""

\* C7: main returns 1 when the input does not exist (checked before the
\* format is detected), when --source is auto and the extension is neither
\* .mid nor .json, or when the importer returns no result (mido missing);
\* it returns 0 when the conversion succeeds, and then the output holds the
\* collection of the importer selected (.mid: syntomid, .json: fl_studio).
C7_ExitCodes ==
    [][call'.op = "main" =>
        LET args == call'.args
            input == Content(fs, args.input)
            exists == input.kind # "absent"
        IN  /\ ~exists =>
                  ret' = [kind |-> "exit", code |-> 1, report |-> "File not found"]
            /\ (exists /\ Selected(args) = "none") =>
                  ret' = [kind |-> "exit", code |-> 1,
                          report |-> "Cannot auto-detect format"]
            /\ (exists /\ Selected(args) = "syntomid" /\ ~mido) =>
                  (ret'.kind = "exit" /\ ret'.code = 1)
            /\ (exists /\ Selected(args) = "syntomid" /\ mido /\ input.kind = "midi") =>
                  (ret'.kind = "exit" /\ ret'.code = 0)
            /\ (exists /\ Selected(args) = "fl_studio" /\ WellFormedEntries(input)) =>
                  (ret'.kind = "exit" /\ ret'.code = 0)
            /\ ret'.kind = "exit" => ret'.code \in {0, 1}
            /\ (ret'.kind = "exit" /\ ret'.code = 1) =>
                  \/ ~exists
                  \/ Selected(args) = "none"
                  \/ Selected(args) = "syntomid" /\ ~mido
            /\ (ret'.kind = "exit" /\ ret'.code = 0) =>
                  /\ Content(fs', Target(args)).kind = "json"
                  /\ Content(fs', Target(args)).val.source = Selected(args)]_vars

\* a .xyz file that exists was given with --source auto: exit code 1
C7_Witness ==
    /\ MainDone
    /\ call.args.source = "auto"
    /\ call.args.input.suffix = ".xyz"
    /\ Content(fs, call.args.input).kind # "absent"
    /\ ret.kind = "exit" /\ ret.code = 1

\* C8: a run of main that does not succeed leaves every file as it was, so
\* the output file is neither created nor modified; a run whose input has
\* one note entry lacking a required key among valid ones does not succeed.
C8_NoPartialOutput ==
    [][call'.op = "main" =>
        /\ ~(ret'.kind = "exit" /\ ret'.code = 0) => fs' = fs
        /\ (/\ Selected(call'.args) = "fl_studio"
             /\ Content(fs, call'.args.input).kind = "json"
             /\ ~WellFormedEntries(Content(fs, call'.args.input))) =>
               (ret'.kind = "raised" /\ fs' = fs)
        /\ (/\ Selected(call'.args) = "fl_studio"
             /\ Content(fs, call'.args.input).kind \in {"garbage", "midi"}) =>
               (ret'.kind = "raised" /\ fs' = fs)]_vars

\* a run on a file with a valid and an invalid note entry ended in
\* KeyError while an older output file was in place
C8_Witness ==
    /\ MainDone
    /\ ret = Raised("KeyError")
    /\ Content(fs, call.args.input) = FLBadNote
    /\ Target(call.args) = OutJson
    /\ Content(fs, OutJson) = OldOutput

\* C10: a run of main never modifies its input file, whatever the options,
\* the default output path and a .json input included.
C10_InputUntouched ==
    [][call'.op = "main" =>
        Content(fs', call'.args.input) = Content(fs, call'.args.input)]_vars

====
